---- MODULE Spec2Model ----
(***************************************************************************)
(* The trade ledger of binance_trading: the Db of the db crate             *)
(* (src/db/src/lib.rs), its JSON archive file and the historicalTrades     *)
(* endpoint it pages backward through; beside it the Db of hist_getter     *)
(* (src/hist_getter/src/db.rs), which stores the same records ascending.   *)
(*                                                                         *)
(* Sequences are 1-based here and 0-based in the source: the Vec element   *)
(* data[k] of the source is data[k + 1] below.                             *)
(***************************************************************************)
EXTENDS Integers, Sequences, FiniteSets, TLC

VARIABLES
    file,       \* the text at the path: a JSON array, or a part of one
    data,       \* Db.data, the Vec<HistoricalTrade> of the store
    origin,     \* the constructor that built the store: "new" or "from"
    op,         \* the operation that ran last
    result,     \* what it returned: [kind |-> "Ok" or the ErrorKind, args |-> its fields]
    before,     \* Db.data when that operation was called (<<>>: no store yet)
    new_data,   \* the batch load_more_data merged last (<<>>: it merged none)
    constructed,\* Db.data as the constructor left it
    accepted,   \* the sizes of the batches merged since, oldest call first
    requests,   \* the requests the last call sent to the endpoint, in order
    getter,     \* the Db of hist_getter: data ascending and the cached minimum
    getter_op,  \* the call that ran last on the Db of hist_getter
    getter_result,  \* and its result
    strategy,   \* the RandomStrategy of hist_executor (its four fields)
    sim,        \* the locals of Executor::simulate_strategy
    calls       \* the react_to_data calls made on strategy: argument and answer

vars == <<file, data, origin, op, result, before, new_data, constructed, accepted,
          requests, getter, getter_op, getter_result, strategy, sim, calls>>

db_vars == <<data, origin, op, result, before, new_data, constructed, accepted,
             requests>>

getter_vars == <<getter, getter_op, getter_result>>

executor_vars == <<strategy, sim, calls>>

----------------------------------------------------------------------------
(* Bounds of the model. *)

NumIds == 4         \* the exchange holds the trades 1 .. NumIds
MaxFile == 3        \* records in the archive the run starts from
MaxBatch == 2       \* records in a response of an arbitrary endpoint
MaxFrom == 2        \* records handed to Db::from
MaxLen == 4         \* records a store may grow to
MaxCalls == 4       \* react_to_data calls on one RandomStrategy

(* let limit = 1000; *)
limit == 1000

----------------------------------------------------------------------------
(* Helpers on sequences. *)

Range(s) == {s[i] : i \in 1..Len(s)}

Ids(s) == {s[i].trade_id : i \in 1..Len(s)}

SeqsUpTo(S, n) == UNION {[1..k -> S] : k \in 0..n}

Injective(s) == \A i, j \in 1..Len(s) : i # j => s[i] # s[j]

SetMin(S) == CHOOSE x \in S : \A y \in S : x <= y

SetMax(S) == CHOOSE x \in S : \A y \in S : x >= y

----------------------------------------------------------------------------
(* The exchange: trade ids are consecutive, time never decreases with the  *)
(* id and two trades may share a millisecond.                              *)

ExchangeIds == 1..NumIds

PriceText(id) == IF id % 2 = 0 THEN "0.06901500" ELSE "0.07"

(* struct HistoricalTrade *)
HistoricalTrade(id) ==
    [trade_id |-> id,
     price |-> PriceText(id),
     quantity |-> "0.00160000",
     quote_quantity |-> "0.00011042",
     time_milliseconds |-> 16526143 + (id \div 2),
     is_buyer_maker |-> (id % 2 = 0),
     is_best_match |-> TRUE]

ExchangeTrades == {HistoricalTrade(id) : id \in ExchangeIds}

----------------------------------------------------------------------------
(* serde_json with the #[serde(rename = ...)] attributes of HistoricalTrade:*)
(* one JSON object per trade, an array in the order of the Vec.            *)

to_json(t) ==
    [id |-> t.trade_id,
     price |-> t.price,
     qty |-> t.quantity,
     quoteQty |-> t.quote_quantity,
     time |-> t.time_milliseconds,
     isBuyerMaker |-> t.is_buyer_maker,
     isBestMatch |-> t.is_best_match]

from_json(j) ==
    [trade_id |-> j.id,
     price |-> j.price,
     quantity |-> j.qty,
     quote_quantity |-> j.quoteQty,
     time_milliseconds |-> j.time,
     is_buyer_maker |-> j.isBuyerMaker,
     is_best_match |-> j.isBestMatch]

to_writer(v) == [i \in 1..Len(v) |-> to_json(v[i])]

from_reader(a) == [i \in 1..Len(a) |-> from_json(a[i])]

----------------------------------------------------------------------------
(* sort_by(|a, b| b.trade_id.cmp(&a.trade_id)): a stable sort, descending  *)
(* by trade_id (equal ids keep their relative order).                      *)

RECURSIVE insert_desc(_, _)
insert_desc(s, t) ==
    IF s = <<>> THEN <<t>>
    ELSE IF s[Len(s)].trade_id >= t.trade_id THEN Append(s, t)
    ELSE Append(insert_desc(SubSeq(s, 1, Len(s) - 1), t), s[Len(s)])

RECURSIVE sort_desc_from(_, _)
sort_desc_from(acc, s) ==
    IF s = <<>> THEN acc
    ELSE sort_desc_from(insert_desc(acc, Head(s)), Tail(s))

sort_by_desc(s) == sort_desc_from(<<>>, s)

----------------------------------------------------------------------------
(* The accessors of Db. *)

get_data_direct(d, idx) == d[idx + 1]

get_data(d, idx) == d[(Len(d) - idx - 1) + 1]

get_min_trade_id(d) == d[Len(d)].trade_id

get_max_trade_id(d) == d[1].trade_id

get_min_time_milliseconds(d) == d[Len(d)].time_milliseconds

get_data_len(d) == Len(d)

----------------------------------------------------------------------------
(* Results. *)

Ok == [kind |-> "Ok", args |-> <<>>]

Err(kind, args) == [kind |-> kind, args |-> args]

EmptyDbError == Err("EmptyDbError", <<>>)

----------------------------------------------------------------------------
(* The historicalTrades endpoint.  A response is what load_more_data can   *)
(* observe of one request: whether BINANCE_API_KEY was set, whether the    *)
(* transport delivered a response, its status and its body (a JSON array   *)
(* of trades, or text that is no such array).                              *)

is_success(status) == status >= 200 /\ status <= 299

NotJson == [json |-> FALSE, items |-> <<>>]

JsonArray(v) == [json |-> TRUE, items |-> to_writer(v)]

Response(key, sent, status, body) ==
    [api_key |-> key, sent |-> sent, status |-> status, body |-> body]

(* Any endpoint: any trades of the exchange, in any order, with repeats. *)
AnyBodies == {NotJson} \cup {JsonArray(v) : v \in SeqsUpTo(ExchangeTrades, MaxBatch)}

(* What a rejected request may carry: text, an empty array, a page. *)
ErrorBodies == {NotJson, JsonArray(<<>>), JsonArray(<<HistoricalTrade(1)>>)}

(* No key: no request is sent.  No transport: no status and no body. *)
NoApiKey == Response(FALSE, FALSE, 0, NotJson)

NoTransport == Response(TRUE, FALSE, 0, NotJson)

AnyResponses ==
    {NoApiKey, NoTransport}
    \cup {Response(TRUE, TRUE, 404, body) : body \in ErrorBodies}
    \cup {Response(TRUE, TRUE, 200, body) : body \in AnyBodies}

(* The paging endpoint: the up-to-lim trades of smallest id >= from_id,    *)
(* ascending by id.                                                        *)
RECURSIVE ascending_from(_, _)
ascending_from(id, n) ==
    IF n = 0 \/ id > NumIds THEN <<>>
    ELSE <<HistoricalTrade(id)>> \o ascending_from(id + 1, n - 1)

historicalTrades(from_id, lim) ==
    ascending_from(IF from_id < 1 THEN 1 ELSE from_id, lim)

query(symbol, from_id) == [symbol |-> symbol, limit |-> limit, fromId |-> from_id]

----------------------------------------------------------------------------
(* Db::new, Db::from, Db::load_more_data and Db::save as functions of the  *)
(* store and their inputs; each yields the result and the store after.     *)

new_unchecked(f) ==
    [result |-> Ok, data |-> sort_by_desc(from_reader(f.items))]

new_unsorted(f) ==
    LET deserialized == from_reader(f.items)
    IN  IF ~f.json
        THEN [result |-> Err("JsonDecodeError", <<>>), data |-> <<>>]
        ELSE IF Len(deserialized) = 0
        THEN [result |-> EmptyDbError, data |-> <<>>]
        ELSE [result |-> Ok, data |-> deserialized]

new(f) ==
    LET deserialized == from_reader(f.items)
    IN  IF ~f.json
        THEN [result |-> Err("JsonDecodeError", <<>>), data |-> <<>>]
        ELSE IF Len(deserialized) = 0
        THEN [result |-> EmptyDbError, data |-> <<>>]
        ELSE [result |-> Ok, data |-> sort_by_desc(deserialized)]

from(records) ==
    IF Len(records) = 0
    THEN [result |-> EmptyDbError, data |-> <<>>]
    ELSE [result |-> Ok, data |-> records]

(* The two guards of load_more_data on the decoded batch. *)
check_batch_gt(d, fetched) ==
    IF Len(fetched) = 0 THEN EmptyDbError
    ELSE IF fetched[1].trade_id > get_min_trade_id(d)
        THEN Err("IntersectingTradeSlicesError",
                 <<get_min_trade_id(d), fetched[1].trade_id>>)
    ELSE Ok

check_batch_no_empty(d, fetched) ==
    IF Len(fetched) = 0 THEN Ok
    ELSE IF fetched[1].trade_id >= get_min_trade_id(d)
        THEN Err("IntersectingTradeSlicesError",
                 <<get_min_trade_id(d), fetched[1].trade_id>>)
    ELSE Ok

check_batch_swapped(d, fetched) ==
    IF Len(fetched) = 0 THEN EmptyDbError
    ELSE IF fetched[1].trade_id >= get_min_trade_id(d)
        THEN Err("IntersectingTradeSlicesError",
                 <<fetched[1].trade_id, get_min_trade_id(d)>>)
    ELSE Ok

check_batch(d, fetched) ==
    IF Len(fetched) = 0 THEN EmptyDbError
    ELSE IF fetched[1].trade_id >= get_min_trade_id(d)
        THEN Err("IntersectingTradeSlicesError",
                 <<get_min_trade_id(d), fetched[1].trade_id>>)
    ELSE Ok

(* new_data.sort_by(..); self.data.extend(new_data.drain(..)); *)
extend_unsorted(d, fetched) == d \o fetched

extend_front(d, fetched) == sort_by_desc(fetched) \o d

extend(d, fetched) == d \o sort_by_desc(fetched)

(* let from_id = self.get_min_trade_id() - limit; *)
from_id_of(d) == get_min_trade_id(d) - limit

(* The requests of one call: none without the key (env::var fails before *)
(* send), else the one GET of the query.                                 *)
sent_requests_retry(d, symbol, resp) ==
    IF ~resp.api_key THEN <<>>
    ELSE IF ~resp.sent
        THEN <<query(symbol, from_id_of(d)), query(symbol, from_id_of(d))>>
    ELSE <<query(symbol, from_id_of(d))>>

sent_requests(d, symbol, resp) ==
    IF ~resp.api_key THEN <<>> ELSE <<query(symbol, from_id_of(d))>>

load_more_data_merge_first(d, symbol, resp) ==
    LET fetched == from_reader(resp.body.items)
        failed(e) == [result |-> e, data |-> d, new_data |-> <<>>,
                      requests |-> sent_requests(d, symbol, resp)]
    IN  IF ~resp.api_key THEN failed(Err("ApiKeyNotFoundError", <<>>))
        ELSE IF ~resp.sent THEN failed(Err("HttpRequest", <<>>))
        ELSE IF ~is_success(resp.status)
            THEN failed(Err("BadStatusCodeError",
                            <<resp.status, resp.body, query(symbol, from_id_of(d))>>))
        ELSE IF ~resp.body.json THEN failed(Err("JsonDecodeError", <<>>))
        ELSE [result |-> check_batch(d, fetched), data |-> extend(d, fetched),
              new_data |-> IF check_batch(d, fetched) = Ok THEN fetched ELSE <<>>,
              requests |-> sent_requests(d, symbol, resp)]

load_more_data_any_status(d, symbol, resp) ==
    LET fetched == from_reader(resp.body.items)
        failed(e) == [result |-> e, data |-> d, new_data |-> <<>>,
                      requests |-> sent_requests(d, symbol, resp)]
    IN  IF ~resp.api_key THEN failed(Err("ApiKeyNotFoundError", <<>>))
        ELSE IF ~resp.sent THEN failed(Err("HttpRequest", <<>>))
        ELSE IF ~resp.body.json THEN failed(Err("JsonDecodeError", <<>>))
        ELSE IF check_batch(d, fetched) # Ok THEN failed(check_batch(d, fetched))
        ELSE [result |-> Ok, data |-> extend(d, fetched), new_data |-> fetched,
              requests |-> sent_requests(d, symbol, resp)]

load_more_data(d, symbol, resp) ==
    LET fetched == from_reader(resp.body.items)
        failed(e) == [result |-> e, data |-> d, new_data |-> <<>>,
                      requests |-> sent_requests(d, symbol, resp)]
    IN  IF ~resp.api_key THEN failed(Err("ApiKeyNotFoundError", <<>>))
        ELSE IF ~resp.sent THEN failed(Err("HttpRequest", <<>>))
        ELSE IF ~is_success(resp.status)
            THEN failed(Err("BadStatusCodeError",
                            <<resp.status, resp.body, query(symbol, from_id_of(d))>>))
        ELSE IF ~resp.body.json THEN failed(Err("JsonDecodeError", <<>>))
        ELSE IF check_batch(d, fetched) # Ok THEN failed(check_batch(d, fetched))
        ELSE [result |-> Ok, data |-> extend(d, fetched), new_data |-> fetched,
              requests |-> sent_requests(d, symbol, resp)]

(* The steps at which save can fail: File::create (the path is left      *)
(* alone), a write of the buffered text to the file that create has      *)
(* emptied (the error returns through to_writer), and the last write,    *)
(* made when the BufWriter is dropped, whose error is discarded.         *)
SaveOutcomes == {"ok", "create", "write", "flush"}

(* The part of the array, in whole objects, that reached the file before *)
(* a failed write: nothing, or all but the last object.                  *)
WrittenPrefixes(d) == {0, Len(d) - 1}

Partial(d, written) == [json |-> FALSE, items |-> SubSeq(to_writer(d), 1, written)]

save(d, f, io, written) ==
    CASE io = "ok"     -> [result |-> Ok, file |-> JsonArray(d)]
      [] io = "create" -> [result |-> Err("Io", <<>>), file |-> f]
      [] io = "write"  -> [result |-> Err("JsonDecodeError", <<>>),
                           file |-> Partial(d, written)]
      [] io = "flush"  -> [result |-> Ok, file |-> Partial(d, written)]

----------------------------------------------------------------------------
(* hist_executor (src/hist_executor/src/main.rs): Balance, TradeAction and *)
(* RandomStrategy. The f64 values are kept in fixed point: prices and      *)
(* quote amounts in millionths, base amounts in thousandths, the fee in    *)
(* thousandths; a product is rounded down to its unit.                     *)

(* self.price.parse().unwrap() on the price texts of the model. *)
get_price(t) ==
    CASE t.price = "0.07" -> 70000
      [] t.price = "0.06901500" -> 69015
      [] t.price = "0.07100000" -> 71000

(* x * (1.0 + fee) and x * (1.0 - fee) *)
times_one_plus(x, fee) == (x * (1000 + fee)) \div 1000

times_one_minus(x, fee) == (x * (1000 - fee)) \div 1000

(* enum TradeAction *)
Pass == [kind |-> "Pass", quantity |-> 0]

BuyQuote(base_quantity) == [kind |-> "BuyQuote", quantity |-> base_quantity]

SellQuote(quote_quantity) == [kind |-> "SellQuote", quantity |-> quote_quantity]

Balance(base, quote) == [base_balance |-> base, quote_balance |-> quote]

(* Balance::buy and Balance::sell: the balance after, and whether one of *)
(* the panic! guards fired.                                              *)
buy(b, base_quantity, fee, price) ==
    LET quote_diff == times_one_minus((base_quantity * price) \div 1000, fee)
        after == Balance(b.base_balance - base_quantity, b.quote_balance + quote_diff)
    IN  [balance |-> after,
         panic |-> base_quantity < 0 \/ after.base_balance < 0 \/ after.quote_balance < 0]

sell(b, quote_quantity, fee, price) ==
    LET base_diff == times_one_minus((quote_quantity * 1000) \div price, fee)
        after == Balance(b.base_balance + base_diff, b.quote_balance - quote_quantity)
    IN  [balance |-> after,
         panic |-> quote_quantity < 0 \/ after.base_balance < 0 \/ after.quote_balance < 0]

(* Option<f64> *)
None == [some |-> FALSE, value |-> 0]

Some(v) == [some |-> TRUE, value |-> v]

(* RandomStrategy::new *)
RandomStrategy_new(balance, fee) ==
    [balance |-> balance, fee |-> fee, last_buying_price |-> None, already_sold |-> FALSE]

react_to_data_resell(self, new_balance, new_trade) ==
    LET s == [self EXCEPT !.balance = new_balance]
    IN  IF s.already_sold THEN [self |-> s, action |-> BuyQuote(0)]
        ELSE IF ~s.last_buying_price.some
        THEN [self |-> [s EXCEPT !.last_buying_price =
                            Some(times_one_plus(get_price(new_trade), s.fee))],
              action |-> BuyQuote(s.balance.base_balance)]
        ELSE IF times_one_plus(get_price(new_trade), s.fee)
                    < times_one_minus(s.last_buying_price.value, s.fee)
        THEN [self |-> s, action |-> SellQuote(s.balance.quote_balance)]
        ELSE [self |-> s, action |-> Pass]

(* RandomStrategy::react_to_data: the instance after, and the answer. *)
react_to_data(self, new_balance, new_trade) ==
    LET s == [self EXCEPT !.balance = new_balance]
    IN  IF s.already_sold THEN [self |-> s, action |-> BuyQuote(0)]
        ELSE IF ~s.last_buying_price.some
        THEN [self |-> [s EXCEPT !.last_buying_price =
                            Some(times_one_plus(get_price(new_trade), s.fee))],
              action |-> BuyQuote(s.balance.base_balance)]
        ELSE IF times_one_plus(get_price(new_trade), s.fee)
                    < times_one_minus(s.last_buying_price.value, s.fee)
        THEN [self |-> [s EXCEPT !.already_sold = TRUE],
              action |-> SellQuote(s.balance.quote_balance)]
        ELSE [self |-> s, action |-> Pass]

(* The values of the variables while hist_executor does not run. *)
NoStrategy == [balance |-> Balance(0, 0), fee |-> 0, last_buying_price |-> None,
               already_sold |-> FALSE]

NoSim == [state |-> "none", fee |-> 0, balance |-> Balance(0, 0), i |-> 0,
          finish_id |-> 0, last_price |-> 0]

----------------------------------------------------------------------------
(* The Db of hist_getter (src/hist_getter/src/db.rs): data ascending by    *)
(* trade_id, with the minimum id and its time cached in two fields.        *)

RECURSIVE insert_asc(_, _)
insert_asc(s, t) ==
    IF s = <<>> THEN <<t>>
    ELSE IF s[Len(s)].trade_id <= t.trade_id THEN Append(s, t)
    ELSE Append(insert_asc(SubSeq(s, 1, Len(s) - 1), t), s[Len(s)])

RECURSIVE sort_asc_from(_, _)
sort_asc_from(acc, s) ==
    IF s = <<>> THEN acc
    ELSE sort_asc_from(insert_asc(acc, Head(s)), Tail(s))

(* sort_by(|a, b| a.trade_id.cmp(&b.trade_id)): stable, ascending. *)
sort_by_asc(s) == sort_asc_from(<<>>, s)

getter_get_min_trade_id(db) == db.data[1].trade_id

getter_get_min_time_milliseconds(db) == db.data[1].time_milliseconds

getter_get_data_len(db) == Len(db.data)

(* The value of the variable while no Db of hist_getter exists. *)
NoGetter == [data |-> <<>>, min_trade_id |-> 0, min_time_milliseconds |-> 0]

getter_new(f) ==
    LET deserialized == sort_by_asc(from_reader(f.items))
    IN  IF ~f.json
        THEN [result |-> Err("JsonDecodeError", <<>>), db |-> NoGetter]
        ELSE IF Len(deserialized) = 0
        THEN [result |-> EmptyDbError, db |-> NoGetter]
        ELSE [result |-> Ok,
              db |-> [data |-> deserialized,
                      min_trade_id |-> deserialized[1].trade_id,
                      min_time_milliseconds |-> deserialized[1].time_milliseconds]]

getter_merge_back(db, fetched) ==
    LET merged == db.data \o sort_by_asc(fetched)
    IN  [data |-> merged,
         min_trade_id |-> merged[1].trade_id,
         min_time_milliseconds |-> merged[1].time_milliseconds]

getter_merge_stale(db, fetched) ==
    [db EXCEPT !.data = sort_by_asc(fetched) \o db.data]

(* new_data.sort_by(..); new_data.extend(self.data.drain(..));           *)
(* self.data = new_data; and the two cached fields are read from it.     *)
getter_merge(db, fetched) ==
    LET merged == sort_by_asc(fetched) \o db.data
    IN  [data |-> merged,
         min_trade_id |-> merged[1].trade_id,
         min_time_milliseconds |-> merged[1].time_milliseconds]

(* The status of the response is not looked at: res.json() decodes the   *)
(* body, and a body that is no JSON array is an error of reqwest.        *)
getter_load_more_data(db, resp) ==
    LET fetched == from_reader(resp.body.items)
        failed(e) == [result |-> e, db |-> db]
    IN  IF ~resp.api_key THEN failed(Err("ApiKeyNotFoundError", <<>>))
        ELSE IF ~resp.sent THEN failed(Err("HttpRequest", <<>>))
        ELSE IF ~resp.body.json THEN failed(Err("HttpRequest", <<>>))
        ELSE IF Len(fetched) = 0 THEN failed(EmptyDbError)
        ELSE IF fetched[1].trade_id >= db.min_trade_id
            THEN failed(Err("IntersectingTradeSlicesError",
                            <<db.min_trade_id, fetched[1].trade_id>>))
        ELSE [result |-> Ok, db |-> getter_merge(db, fetched)]

getter_save(db, f, io, written) == save(db.data, f, io, written)

----------------------------------------------------------------------------
(* The state machine. *)

(* An archive written earlier: consecutive trades of the exchange, in any  *)
(* array order. *)
Archives ==
    {JsonArray(v) : v \in {w \in SeqsUpTo(ExchangeTrades, MaxFile) :
        /\ Len(w) >= 1
        /\ Injective(w)
        /\ Ids(w) = SetMin(Ids(w)) .. SetMax(Ids(w))}}

Init ==
    /\ file \in Archives
    /\ data = new(file).data
    /\ origin = "new"
    /\ op = "new"
    /\ result = Ok
    /\ before = <<>>
    /\ new_data = <<>>
    /\ constructed = data
    /\ accepted = <<>>
    /\ requests = <<>>
    /\ getter = NoGetter
    /\ getter_op = "none"
    /\ getter_result = Ok
    /\ strategy = NoStrategy
    /\ sim = NoSim
    /\ calls = <<>>

(* let db = Db::new(&path)?;  the store is replaced when it succeeds. *)
Construct ==
    LET r == new(file)
    IN  /\ op' = "new"
        /\ result' = r.result
        /\ before' = <<>>
        /\ new_data' = <<>>
        /\ requests' = <<>>
        /\ IF r.result = Ok
           THEN /\ data' = r.data
                /\ origin' = "new"
                /\ constructed' = r.data
                /\ accepted' = <<>>
           ELSE UNCHANGED <<data, origin, constructed, accepted>>
        /\ UNCHANGED file

Db_new == Construct /\ UNCHANGED getter_vars /\ UNCHANGED executor_vars

Extend(resp) ==
    LET r == load_more_data(data, "ETHBTC", resp)
    IN  /\ op' = "load_more_data"
        /\ result' = r.result
        /\ before' = data
        /\ new_data' = r.new_data
        /\ requests' = r.requests
        /\ data' = r.data
        /\ accepted' = IF r.result = Ok THEN Append(accepted, Len(r.new_data))
                                         ELSE accepted
        /\ UNCHANGED <<file, origin, constructed>>

(* db.load_more_data(symbol).await against any endpoint. *)
Db_load_more_data ==
    \E resp \in AnyResponses :
        /\ Len(data) + Len(resp.body.items) <= MaxLen
        /\ Extend(resp)
        /\ UNCHANGED getter_vars /\ UNCHANGED executor_vars

(* db.load_more_data(symbol).await against the paging endpoint, which    *)
(* answers the request or is not reached.                                *)
Db_load_more_data_paged ==
    \E resp \in {NoApiKey, NoTransport,
                 Response(TRUE, TRUE, 200,
                     JsonArray(historicalTrades(from_id_of(data), limit)))} :
        Extend(resp) /\ UNCHANGED getter_vars /\ UNCHANGED executor_vars

(* db.save(&path)?; *)
Write(io, written) ==
    LET r == save(data, file, io, written)
    IN  /\ op' = "save"
        /\ result' = r.result
        /\ before' = data
        /\ new_data' = <<>>
        /\ requests' = <<>>
        /\ file' = r.file
        /\ UNCHANGED <<data, origin, constructed, accepted>>
        /\ UNCHANGED getter_vars /\ UNCHANGED executor_vars

(* db.save(&path)?; on a disk that takes every write. *)
Db_save == Write("ok", 0)

(* db.save(&path)?; on a disk that may fail at any step. *)
Db_save_failing ==
    \E io \in SaveOutcomes, written \in WrittenPrefixes(data) : Write(io, written)

Next == Db_new \/ Db_load_more_data \/ Db_save

Spec == Init /\ [][Next]_vars

(* let db = Db::from(records)?;  a store wrapped around records in       *)
(* memory, in the order they are handed over, beside a path that holds   *)
(* the empty array until the store is saved.                             *)
InitFrom ==
    /\ file = JsonArray(<<>>)
    /\ \E records \in SeqsUpTo(ExchangeTrades, MaxFrom) :
        /\ from(records).result = Ok
        /\ data = from(records).data
    /\ origin = "from"
    /\ op = "from"
    /\ result = Ok
    /\ before = <<>>
    /\ new_data = <<>>
    /\ constructed = data
    /\ accepted = <<>>
    /\ requests = <<>>
    /\ getter = NoGetter
    /\ getter_op = "none"
    /\ getter_result = Ok
    /\ strategy = NoStrategy
    /\ sim = NoSim
    /\ calls = <<>>

SpecFrom == InitFrom /\ [][Next]_vars

(* The ingestion runs against the paging endpoint only. *)
NextPaged == Db_new \/ Db_load_more_data_paged \/ Db_save

SpecPaged == Init /\ [][NextPaged]_vars

(* The ingestion on a disk that may fail. *)
NextDisk == Db_new \/ Db_load_more_data_paged \/ Db_save_failing

SpecDisk == Init /\ [][NextDisk]_vars

(* hist_getter: let mut db = Db::new(..)?; db.load_more_data().await?;   *)
(* db.save(..)?; on its own Db, built from the file the Db of the db     *)
(* crate is built from.                                                  *)
InitGetter ==
    /\ file \in Archives
    /\ data = new(file).data
    /\ origin = "new"
    /\ op = "new"
    /\ result = Ok
    /\ before = <<>>
    /\ new_data = <<>>
    /\ constructed = data
    /\ accepted = <<>>
    /\ requests = <<>>
    /\ getter = getter_new(file).db
    /\ getter_op = "new"
    /\ getter_result = Ok
    /\ strategy = NoStrategy
    /\ sim = NoSim
    /\ calls = <<>>

GetterConstruct ==
    LET r == getter_new(file)
    IN  /\ getter_op' = "new"
        /\ getter_result' = r.result
        /\ getter' = IF r.result = Ok THEN r.db ELSE getter

Getter_new == GetterConstruct /\ UNCHANGED file /\ UNCHANGED db_vars /\ UNCHANGED executor_vars

GetterExtend(resp) ==
    LET r == getter_load_more_data(getter, resp)
    IN  /\ getter_op' = "load_more_data"
        /\ getter_result' = r.result
        /\ getter' = r.db

Getter_load_more_data ==
    \E resp \in AnyResponses :
        /\ Len(getter.data) + Len(resp.body.items) <= MaxLen
        /\ GetterExtend(resp)
        /\ UNCHANGED file
        /\ UNCHANGED db_vars /\ UNCHANGED executor_vars

Getter_save ==
    \E io \in SaveOutcomes, written \in WrittenPrefixes(getter.data) :
        LET r == getter_save(getter, file, io, written)
        IN  /\ getter_op' = "save"
            /\ getter_result' = r.result
            /\ file' = r.file
            /\ UNCHANGED getter
            /\ UNCHANGED db_vars /\ UNCHANGED executor_vars

NextGetter == Getter_new \/ Getter_load_more_data \/ Getter_save

SpecGetter == InitGetter /\ [][NextGetter]_vars

(* The two Db side by side: built from the same file, every call of      *)
(* load_more_data answered by the same response for both. The endpoint   *)
(* may serve a trade again with other contents under the same id.        *)
Restated(t) == [t EXCEPT !.price = "0.07100000", !.time_milliseconds = @ + 1]

LayoutTrades == ExchangeTrades \cup {Restated(HistoricalTrade(1))}

FetchedBatches ==
    {Response(TRUE, TRUE, 200, JsonArray(v)) : v \in SeqsUpTo(LayoutTrades, MaxBatch)}

Both_new == Construct /\ GetterConstruct /\ UNCHANGED executor_vars

Both_load_more_data ==
    \E resp \in FetchedBatches \cup {NoApiKey, NoTransport} :
        /\ Len(data) + Len(resp.body.items) <= MaxLen
        /\ Extend(resp)
        /\ GetterExtend(resp)
        /\ UNCHANGED executor_vars

NextLayouts == Both_new \/ Both_load_more_data

SpecLayouts == InitGetter /\ [][NextLayouts]_vars

----------------------------------------------------------------------------
(* main of hist_getter (src/hist_getter/src/main.rs): Db::new(..)?, then   *)
(* db.load_more_data().await?, then db.save(..)?, each '?' ending the run  *)
(* with the error. Its Db is the ascending one; a missing key is the       *)
(* foreign link MissingApiKeyInEnv here.                                   *)

main_new(f, readable) ==
    IF ~readable THEN [result |-> Err("Io", <<>>), db |-> NoGetter]
    ELSE getter_new(f)

main_load_more_data(db, resp) ==
    IF ~resp.api_key
    THEN [result |-> Err("MissingApiKeyInEnv", <<>>), db |-> db]
    ELSE getter_load_more_data(db, resp)

(* The statement main runs next. *)
main_pc ==
    IF getter_result # Ok THEN "exit_err"
    ELSE CASE getter_op = "none" -> "new"
           [] getter_op = "new" -> "load_more_data"
           [] getter_op = "load_more_data" -> "save"
           [] getter_op = "save" -> "exit_ok"

(* The text at the path when the tool starts: an archive, the empty      *)
(* array, or a text that is no JSON array.                               *)
MainFiles == Archives \cup {JsonArray(<<>>), NotJson}

InitMain ==
    /\ file \in MainFiles
    /\ data = <<>>
    /\ origin = "none"
    /\ op = "none"
    /\ result = Ok
    /\ before = <<>>
    /\ new_data = <<>>
    /\ constructed = <<>>
    /\ accepted = <<>>
    /\ requests = <<>>
    /\ getter = NoGetter
    /\ getter_op = "none"
    /\ getter_result = Ok
    /\ strategy = NoStrategy
    /\ sim = NoSim
    /\ calls = <<>>

Main_new ==
    /\ main_pc = "new"
    /\ \E readable \in BOOLEAN :
        LET r == main_new(file, readable)
        IN  /\ getter_op' = "new"
            /\ getter_result' = r.result
            /\ getter' = r.db
    /\ UNCHANGED file
    /\ UNCHANGED db_vars /\ UNCHANGED executor_vars

Main_load_more_data ==
    /\ main_pc = "load_more_data"
    /\ \E resp \in AnyResponses :
        LET r == main_load_more_data(getter, resp)
        IN  /\ getter_op' = "load_more_data"
            /\ getter_result' = r.result
            /\ getter' = r.db
    /\ UNCHANGED file
    /\ UNCHANGED db_vars /\ UNCHANGED executor_vars

Main_save ==
    /\ main_pc = "save"
    /\ \E io \in SaveOutcomes, written \in WrittenPrefixes(getter.data) :
        LET r == getter_save(getter, file, io, written)
        IN  /\ getter_op' = "save"
            /\ getter_result' = r.result
            /\ file' = r.file
    /\ UNCHANGED getter
    /\ UNCHANGED db_vars /\ UNCHANGED executor_vars

NextMain == Main_new \/ Main_load_more_data \/ Main_save

SpecMain == InitMain /\ [][NextMain]_vars

----------------------------------------------------------------------------
(* hist_executor. Fees in thousandths: none, the default 0.001, and 0.02. *)
Fees == {0, 1, 20}

(* One RandomStrategy called by any caller: with any balance of a few    *)
(* and any trade of the exchange.                                        *)
CallBalances == {Balance(1000, 0), Balance(500, 69930)}

InitStrategy ==
    /\ file = JsonArray(<<>>)
    /\ data = <<>>
    /\ origin = "none"
    /\ op = "none"
    /\ result = Ok
    /\ before = <<>>
    /\ new_data = <<>>
    /\ constructed = <<>>
    /\ accepted = <<>>
    /\ requests = <<>>
    /\ getter = NoGetter
    /\ getter_op = "none"
    /\ getter_result = Ok
    /\ \E b \in CallBalances, fee \in Fees : strategy = RandomStrategy_new(b, fee)
    /\ sim = NoSim
    /\ calls = <<>>

(* let mut strategy = T::new(balance, fee); a fresh instance. *)
Strategy_new ==
    /\ calls # <<>>
    /\ \E b \in CallBalances, fee \in Fees : strategy' = RandomStrategy_new(b, fee)
    /\ calls' = <<>>
    /\ UNCHANGED <<file, sim>>
    /\ UNCHANGED db_vars
    /\ UNCHANGED getter_vars

(* strategy.react_to_data(new_balance, new_data) *)
Strategy_react ==
    /\ Len(calls) < MaxCalls
    /\ \E b \in CallBalances, t \in ExchangeTrades :
        LET r == react_to_data(strategy, b, t)
        IN  /\ strategy' = r.self
            /\ calls' = Append(calls, [new_balance |-> b, action |-> r.action])
    /\ UNCHANGED <<file, sim>>
    /\ UNCHANGED db_vars
    /\ UNCHANGED getter_vars

NextStrategy == Strategy_new \/ Strategy_react

SpecStrategy == InitStrategy /\ [][NextStrategy]_vars

(* Executor::new and Executor::simulate_strategy::<RandomStrategy>, run  *)
(* again and again by main on one Db.                                    *)
ExecutorFiles ==
    {JsonArray(v) : v \in {w \in SeqsUpTo(ExchangeTrades, MaxLen) :
        /\ Len(w) >= 1
        /\ Injective(w)
        /\ Ids(w) = SetMin(Ids(w)) .. SetMax(Ids(w))}}

InitExecutor ==
    /\ file \in ExecutorFiles
    /\ data = new(file).data
    /\ origin = "new"
    /\ op = "new"
    /\ result = Ok
    /\ before = <<>>
    /\ new_data = <<>>
    /\ constructed = data
    /\ accepted = <<>>
    /\ requests = <<>>
    /\ getter = NoGetter
    /\ getter_op = "none"
    /\ getter_result = Ok
    /\ strategy = NoStrategy
    /\ \E fee \in Fees : sim = [NoSim EXCEPT !.state = "idle", !.fee = fee]
    /\ calls = <<>>

(* start_id, finish_id, balance, strategy and last_price of one run. *)
Simulate_start ==
    /\ sim.state = "idle"
    /\ \E start_id \in 0..(get_data_len(data) - 1) :
        \E finish_id \in start_id..(get_data_len(data) - 1) :
            sim' = [state |-> "loop", fee |-> sim.fee, balance |-> Balance(1000, 0),
                    i |-> start_id, finish_id |-> finish_id,
                    last_price |-> get_price(get_data(data, start_id))]
    /\ strategy' = RandomStrategy_new(Balance(1000, 0), sim.fee)
    /\ calls' = <<>>
    /\ UNCHANGED file
    /\ UNCHANGED db_vars
    /\ UNCHANGED getter_vars

(* One turn of for i in start_id..finish_id. *)
Simulate_step ==
    /\ sim.state = "loop"
    /\ sim.i < sim.finish_id
    /\ LET new_trade == get_data(data, sim.i)
           r == react_to_data(strategy, sim.balance, new_trade)
           last_price == get_price(new_trade)
           applied ==
               CASE r.action.kind = "Pass" -> [balance |-> sim.balance, panic |-> FALSE]
                 [] r.action.kind = "SellQuote" ->
                        sell(sim.balance, r.action.quantity, sim.fee, last_price)
                 [] r.action.kind = "BuyQuote" ->
                        buy(sim.balance, r.action.quantity, sim.fee, last_price)
       IN  /\ strategy' = r.self
           /\ calls' = Append(calls, [new_balance |-> sim.balance, action |-> r.action])
           /\ sim' = [sim EXCEPT !.balance = applied.balance,
                                 !.last_price = last_price,
                                 !.i = @ + 1,
                                 !.state = IF applied.panic THEN "panicked" ELSE "loop"]
    /\ UNCHANGED file
    /\ UNCHANGED db_vars
    /\ UNCHANGED getter_vars

(* balance.sell(balance.quote_balance, fee, last_price); balance *)
Simulate_finish ==
    /\ sim.state = "loop"
    /\ sim.i >= sim.finish_id
    /\ LET sold == sell(sim.balance, sim.balance.quote_balance, sim.fee, sim.last_price)
       IN  sim' = [sim EXCEPT !.balance = sold.balance,
                             !.state = IF sold.panic THEN "panicked" ELSE "idle"]
    /\ UNCHANGED <<file, strategy, calls>>
    /\ UNCHANGED db_vars
    /\ UNCHANGED getter_vars

NextExecutor == Simulate_start \/ Simulate_step \/ Simulate_finish

SpecExecutor == InitExecutor /\ [][NextExecutor]_vars

----------------------------------------------------------------------------
(* Properties. *)

Extended == op = "load_more_data" /\ result = Ok

(* What a caller can observe of a store. *)
SameStore(d, e) ==
    /\ d = e
    /\ get_data_len(d) = get_data_len(e)
    /\ get_min_trade_id(d) = get_min_trade_id(e)
    /\ get_max_trade_id(d) = get_max_trade_id(e)
    /\ get_min_time_milliseconds(d) = get_min_time_milliseconds(e)

(* The response was received and decoded to the batch of its body. *)
Decoded(resp) == resp.api_key /\ resp.sent /\ is_success(resp.status) /\ resp.body.json

(* C1: whatever the store, a decoded non-empty batch whose first record  *)
(* has trade_id >= get_min_trade_id() makes load_more_data fail with     *)
(* IntersectingTradeSlicesError and leaves the store as it was; and      *)
(* every call that ended with that error left data, the length and the   *)
(* extremities as they were before it.                                   *)
C1_OverlapGuard ==
    /\ \A resp \in AnyResponses :
        (/\ Decoded(resp)
         /\ Len(resp.body.items) >= 1
         /\ resp.body.items[1].id >= get_min_trade_id(data))
        => LET r == load_more_data(data, "ETHBTC", resp)
           IN  /\ r.result.kind = "IntersectingTradeSlicesError"
               /\ SameStore(r.data, data)
    /\ (op = "load_more_data" /\ result.kind = "IntersectingTradeSlicesError")
        => SameStore(data, before)

C1_Witness ==
    /\ op = "load_more_data"
    /\ result.kind = "IntersectingTradeSlicesError"
    /\ result.args[2] >= get_min_trade_id(before)
    /\ Len(before) >= 2
    /\ data = before

(* C2: a decoded batch of zero records makes load_more_data fail with    *)
(* EmptyDbError and leaves the store as it was.                          *)
C2_EmptyBatchGuard ==
    /\ \A resp \in AnyResponses :
        (Decoded(resp) /\ Len(resp.body.items) = 0)
        => LET r == load_more_data(data, "ETHBTC", resp)
           IN  r.result = EmptyDbError /\ SameStore(r.data, data)
    /\ (op = "load_more_data" /\ result = EmptyDbError) => SameStore(data, before)

C2_Witness ==
    /\ op = "load_more_data"
    /\ result = EmptyDbError
    /\ Len(before) >= 2
    /\ data = before

Ascending(v) == \A i, j \in 1..Len(v) : i < j => v[i].trade_id < v[j].trade_id

(* C3: every record of a batch that arrived ascending by trade_id and    *)
(* that load_more_data merged has a trade_id below the get_min_trade_id()*)
(* of the store before the call.                                         *)
C3_StrictlyOlder ==
    (Extended /\ Ascending(new_data))
    => \A i \in 1..Len(new_data) : new_data[i].trade_id < get_min_trade_id(before)

(* C4: the store was loaded from consecutive ids, and after any merges   *)
(* its ids are still an integer interval: no id between the lowest and   *)
(* the highest stored id is missing.                                     *)
C4_GapFree ==
    origin = "new" => Ids(data) = SetMin(Ids(data)) .. SetMax(Ids(data))

(* C5: against the paging endpoint no two records of the store share a   *)
(* trade_id.                                                             *)
C5_NoDuplicateIds ==
    \A i, j \in 1..Len(data) : i # j => data[i].trade_id # data[j].trade_id

(* C6: after Db::new and after every merge of a batch that arrived       *)
(* ascending, the records are strictly monotonic in trade_id from one    *)
(* end of data to the other, and time_milliseconds is monotonic, not     *)
(* strictly, in the same direction.                                      *)
C6_Ordering ==
    ((op = "new" /\ result = Ok) \/ (Extended /\ Ascending(new_data)))
    => \A i \in 1..(Len(data) - 1) :
        /\ data[i].trade_id > data[i + 1].trade_id
        /\ data[i].time_milliseconds >= data[i + 1].time_milliseconds

RECURSIVE Sum(_)
Sum(v) == IF v = <<>> THEN 0 ELSE Head(v) + Sum(Tail(v))

(* C7: the length of the store is its length at construction plus the    *)
(* sizes of all the batches merged since, and each merge adds the size   *)
(* of its batch and lowers get_min_trade_id() strictly.                  *)
C7_ContiguousGrowth ==
    /\ get_data_len(data) = get_data_len(constructed) + Sum(accepted)
    /\ Extended =>
        /\ get_data_len(data) = get_data_len(before) + Len(new_data)
        /\ get_min_trade_id(data) < get_min_trade_id(before)

C7_Witness ==
    /\ Extended
    /\ Len(accepted) >= 2
    /\ Len(new_data) >= 2
    /\ get_data_len(data) = get_data_len(constructed) + Sum(accepted)

UniqueIds(d) == \A i, j \in 1..Len(d) : i # j => d[i].trade_id # d[j].trade_id

(* The same records, whatever their order. *)
SameRecords(d, e) ==
    /\ Len(d) = Len(e)
    /\ \A t \in Range(d) \cup Range(e) :
        Cardinality({i \in 1..Len(d) : d[i] = t}) = Cardinality({i \in 1..Len(e) : e[i] = t})

(* C8: a store whose ids are unique is saved, the whole text reaching    *)
(* the file, and the file is loaded: the loaded store holds the same     *)
(* records and reports the same length and the same extremities as the   *)
(* store that was saved.                                                 *)
C8_RoundTrip ==
    [][(/\ op = "save" /\ result = Ok /\ file = JsonArray(data)
        /\ UniqueIds(data) /\ op' = "new")
        => /\ result' = Ok
           /\ SameRecords(data', data)
           /\ get_data_len(data') = get_data_len(data)
           /\ get_min_trade_id(data') = get_min_trade_id(data)
           /\ get_max_trade_id(data') = get_max_trade_id(data)
           /\ get_min_time_milliseconds(data') = get_min_time_milliseconds(data)]_vars

(* C9, as claimed: in a store built by Db::new and merges, get_data(0)   *)
(* is the record of highest trade_id and a higher index holds a lower    *)
(* trade_id.                                                             *)
C9_NewestFirst ==
    origin = "new" =>
        /\ get_data(data, 0).trade_id = SetMax(Ids(data))
        /\ \A i, j \in 0..(get_data_len(data) - 1) :
            i < j => get_data(data, i).trade_id > get_data(data, j).trade_id

(* The indices get_data gives to the records of the constructor (k = 0)  *)
(* and of the k-th merged batch: a later batch lies at lower indices.    *)
SegmentLen(k) == IF k = 0 THEN Len(constructed) ELSE accepted[k]

SegmentEnd(k) == Len(data) - Sum(SubSeq(accepted, 1, k)) - Len(constructed) + SegmentLen(k)

Segment(k) == (SegmentEnd(k) - SegmentLen(k)) .. (SegmentEnd(k) - 1)

(* C9, amended: in a store built by Db::new and merges, get_data(0) is   *)
(* the record of lowest trade_id, equal to get_min_trade_id(), no index  *)
(* holds a lower one, and within the records of the load and of each     *)
(* merged batch a higher index never holds a lower trade_id.             *)
C9_OldestFirst ==
    origin = "new" =>
        /\ get_data(data, 0).trade_id = SetMin(Ids(data))
        /\ get_data(data, 0).trade_id = get_min_trade_id(data)
        /\ \A k \in 0..Len(accepted) : \A i, j \in Segment(k) :
            i < j => get_data(data, i).trade_id <= get_data(data, j).trade_id

C9_Witness ==
    /\ origin = "new"
    /\ Extended
    /\ Len(accepted) >= 2
    /\ Len(constructed) >= 2
    /\ get_data(data, 0).trade_id < get_data(data, get_data_len(data) - 1).trade_id

(* C10, as claimed: a merge leaves get_data(i) as it was for every index *)
(* below the old length.                                                 *)
C10_IndexStable ==
    Extended => \A i \in 0..(get_data_len(before) - 1) :
        get_data(data, i) = get_data(before, i)

(* C10, amended: a merge of n records moves every record n indices up,   *)
(* get_data(i + n) after it is get_data(i) before it, and get_data(0)    *)
(* becomes a record of the batch with a trade_id below the old           *)
(* get_data(0).                                                          *)
C10_IndexShift ==
    Extended =>
        /\ \A i \in 0..(get_data_len(before) - 1) :
            get_data(data, i + Len(new_data)) = get_data(before, i)
        /\ get_data(data, 0) \in Range(new_data)
        /\ get_data(data, 0).trade_id < get_data(before, 0).trade_id

C10_Witness ==
    /\ Extended
    /\ get_data_len(before) >= 2
    /\ Len(new_data) >= 2
    /\ get_data(data, Len(new_data)) = get_data(before, 0)

(* C11: a call of load_more_data that fails, whatever the reason, leaves *)
(* data, the length and the extremities as they were, so that the next   *)
(* call computes the same from_id and sends the same request as the      *)
(* failed one.                                                           *)
C11_FailureAtomic ==
    /\ \A resp \in AnyResponses :
        LET r == load_more_data(data, "ETHBTC", resp)
        IN  r.result # Ok => SameStore(r.data, data)
    /\ (op = "load_more_data" /\ result # Ok) =>
        /\ SameStore(data, before)
        /\ from_id_of(data) = from_id_of(before)
        /\ sent_requests(data, "ETHBTC", NoTransport)
            = sent_requests(before, "ETHBTC", NoTransport)

C11_Witness ==
    /\ op = "load_more_data"
    /\ result.kind = "JsonDecodeError"
    /\ Len(accepted) >= 1
    /\ data = before
    /\ \E resp \in AnyResponses : load_more_data(data, "ETHBTC", resp).result = Ok

(* C17: a call of load_more_data sends at most one request, for          *)
(* limit = 1000 and fromId = get_min_trade_id() - 1000 of the store at   *)
(* the start of the call; it sends exactly one when the key is set and   *)
(* none otherwise, never a second one, and a failure of the fetch is the *)
(* result of that call and leaves the store alone.                       *)
C17_SingleFetch ==
    op = "load_more_data" =>
        /\ Len(requests) <= 1
        /\ \A i \in 1..Len(requests) :
            /\ requests[i].limit = 1000
            /\ requests[i].fromId = get_min_trade_id(before) - 1000
        /\ (result.kind = "ApiKeyNotFoundError") = (Len(requests) = 0)
        /\ result.kind \in {"HttpRequest", "BadStatusCodeError"} => data = before

C17_Witness ==
    /\ op = "load_more_data"
    /\ result.kind = "HttpRequest"
    /\ Len(requests) = 1
    /\ Len(accepted) >= 1
    /\ requests[1].fromId = get_min_trade_id(data) - 1000

(* C12: a call of save that fails leaves at the path the text that was   *)
(* there before the call.                                                *)
C12_FailedSaveKeepsFile ==
    [][(op' = "save" /\ result' # Ok) => file' = file]_vars

(* C12, second part: no store is built from a partly written file.       *)
C12_NoLoadOfPartialFile ==
    [][(op' = "new" /\ ~file.json) => (result' # Ok /\ data' = data)]_vars

(* C13: every store holds at least one record, whatever calls succeeded  *)
(* or failed on it; Db::new of a file that decodes to zero records and   *)
(* Db::from of no records end in EmptyDbError without a store, and a     *)
(* failed Db::new leaves the store the caller already has.               *)
C13_NonEmpty ==
    /\ Len(data) >= 1
    /\ get_data_len(data) >= 1
    /\ new(JsonArray(<<>>)) = [result |-> EmptyDbError, data |-> <<>>]
    /\ from(<<>>) = [result |-> EmptyDbError, data |-> <<>>]
    /\ \A records \in SeqsUpTo(ExchangeTrades, MaxFrom) :
        from(records).result = Ok => Len(from(records).data) >= 1
    /\ (file.json /\ Len(file.items) = 0) => new(file).result = EmptyDbError
    /\ (op = "new" /\ result = EmptyDbError) => (file.json /\ Len(file.items) = 0)

C13_Witness ==
    /\ op = "new"
    /\ result = EmptyDbError
    /\ Len(accepted) >= 1
    /\ Len(data) >= 2

SetMinTime(d) ==
    CHOOSE t \in {d[i].time_milliseconds : i \in 1..Len(d)} :
        \A i \in 1..Len(d) : t <= d[i].time_milliseconds

(* C14: in a store just built by Db::new or Db::from, or just extended   *)
(* by an ascending batch, get_min_trade_id() is the lowest trade_id in   *)
(* the store, get_max_trade_id() the highest, and                        *)
(* get_min_time_milliseconds() the lowest time.                          *)
C14_TrueExtremities ==
    (op \in {"new", "from"} /\ result = Ok) \/ (Extended /\ Ascending(new_data))
        => /\ get_min_trade_id(data) = SetMin(Ids(data))
           /\ get_max_trade_id(data) = SetMax(Ids(data))
           /\ get_min_time_milliseconds(data) = SetMinTime(data)

(* The array with the elements at i and j exchanged. *)
Exchanged(a, i, j) ==
    [k \in 1..Len(a) |-> IF k = i THEN a[j] ELSE IF k = j THEN a[i] ELSE a[k]]

(* C15: a file whose records have unique ids loads to the same store     *)
(* whichever two elements of its array are exchanged (and so in every    *)
(* order of the array): the same result, the same data, the same         *)
(* accessors and the same get_data at every index; the store that        *)
(* Db::new has just built is the one a second load of the file builds.   *)
C15_LoadIgnoresOrder ==
    /\ (file.json /\ UniqueIds(from_reader(file.items))) =>
        \A i, j \in 1..Len(file.items) :
            LET a == new(file)
                b == new([file EXCEPT !.items = Exchanged(@, i, j)])
            IN  /\ a.result = b.result
                /\ a.data = b.data
                /\ a.result = Ok =>
                    /\ SameStore(a.data, b.data)
                    /\ \A idx \in 0..(Len(a.data) - 1) :
                        get_data(a.data, idx) = get_data(b.data, idx)
    /\ (op = "new" /\ result = Ok) => SameStore(data, new(file).data)

C15_Witness ==
    /\ op = "new"
    /\ result = Ok
    /\ Len(data) >= 3
    /\ UniqueIds(data)
    /\ from_reader(file.items) # data
    /\ Len(accepted) = 0

(* The example of the specification: a store loaded from the ids         *)
(* {100, 101, 102}, the batch [97, 98, 99], then the batch [99, 100].    *)
ExampleRun ==
    LET fetched(v) == Response(TRUE, TRUE, 200, JsonArray(v))
        s0 == new(JsonArray(<<HistoricalTrade(100), HistoricalTrade(101),
                              HistoricalTrade(102)>>))
        r1 == load_more_data(s0.data, "ETHBTC",
                  fetched(<<HistoricalTrade(97), HistoricalTrade(98), HistoricalTrade(99)>>))
        r2 == load_more_data(r1.data, "ETHBTC",
                  fetched(<<HistoricalTrade(99), HistoricalTrade(100)>>))
    IN  [loaded |-> s0, first |-> r1, second |-> r2]

(* C16: a batch rejected by the intersection guard is reported as        *)
(* IntersectingTradeSlicesError(get_min_trade_id() before the call,      *)
(* trade_id of the first record of the batch), in that order, and the    *)
(* store stays as it was; in the example the second batch fails with     *)
(* (97, 99) and the length stays 6.                                      *)
C16_IntersectionReport ==
    /\ \A resp \in AnyResponses :
        (/\ Decoded(resp)
         /\ Len(resp.body.items) >= 1
         /\ from_reader(resp.body.items)[1].trade_id >= get_min_trade_id(data))
        => LET r == load_more_data(data, "ETHBTC", resp)
           IN  /\ r.result = Err("IntersectingTradeSlicesError",
                                 <<get_min_trade_id(data),
                                   from_reader(resp.body.items)[1].trade_id>>)
               /\ r.data = data
    /\ (op = "load_more_data" /\ result.kind = "IntersectingTradeSlicesError") =>
        /\ result.args[1] = get_min_trade_id(before)
        /\ result.args[2] >= result.args[1]
        /\ data = before
    /\ ExampleRun.loaded.result = Ok
    /\ get_min_trade_id(ExampleRun.loaded.data) = 100
    /\ ExampleRun.first.result = Ok
    /\ get_data_len(ExampleRun.first.data) = 6
    /\ get_min_trade_id(ExampleRun.first.data) = 97
    /\ ExampleRun.second.result = Err("IntersectingTradeSlicesError", <<97, 99>>)
    /\ get_data_len(ExampleRun.second.data) = 6
    /\ ExampleRun.second.data = ExampleRun.first.data

C16_Witness ==
    /\ op = "load_more_data"
    /\ result.kind = "IntersectingTradeSlicesError"
    /\ result.args[1] = get_min_trade_id(data)
    /\ result.args[2] > result.args[1]
    /\ Len(accepted) >= 1

(* C19: a response whose status is not 2xx ends the call with            *)
(* BadStatusCodeError(status, body, request), whatever the body, even    *)
(* one that decodes to a batch the guards would accept: nothing is       *)
(* decoded or merged; a request that got no response ends it with        *)
(* HttpRequest instead.                                                  *)
C19_StatusBeforeDecoding ==
    /\ \A resp \in AnyResponses :
        LET r == load_more_data(data, "ETHBTC", resp)
        IN  /\ (resp.api_key /\ resp.sent /\ ~is_success(resp.status)) =>
                /\ r.result = Err("BadStatusCodeError",
                        <<resp.status, resp.body,
                          query("ETHBTC", get_min_trade_id(data) - limit)>>)
                /\ r.data = data
                /\ r.new_data = <<>>
            /\ (resp.api_key /\ ~resp.sent) =>
                (r.result.kind = "HttpRequest" /\ r.data = data)
    /\ (op = "load_more_data" /\ result.kind = "BadStatusCodeError") =>
        /\ data = before
        /\ ~is_success(result.args[1])
        /\ result.args[3] = query("ETHBTC", get_min_trade_id(before) - limit)

C19_Witness ==
    /\ op = "load_more_data"
    /\ result.kind = "BadStatusCodeError"
    /\ result.args[2] = JsonArray(<<HistoricalTrade(1)>>)
    /\ get_min_trade_id(data) > 1
    /\ load_more_data(data, "ETHBTC",
                      Response(TRUE, TRUE, 200, result.args[2])).result = Ok
    /\ data = before

(* C20: in the Db of hist_getter the cached min_trade_id and              *)
(* min_time_milliseconds are those of data[0] after new and after every  *)
(* call of load_more_data, failed or not, so the guard (which reads the  *)
(* cached field) rejects exactly the batches whose first id is not below *)
(* get_min_trade_id().                                                   *)
C20_CacheInSync ==
    /\ getter.min_trade_id = getter.data[1].trade_id
    /\ getter.min_time_milliseconds = getter.data[1].time_milliseconds
    /\ getter.min_trade_id = getter_get_min_trade_id(getter)
    /\ getter.min_time_milliseconds = getter_get_min_time_milliseconds(getter)
    /\ \A resp \in AnyResponses :
        (resp.api_key /\ resp.sent /\ resp.body.json /\ Len(resp.body.items) >= 1) =>
            ((getter_load_more_data(getter, resp).result.kind
                 = "IntersectingTradeSlicesError")
             <=> (from_reader(resp.body.items)[1].trade_id
                     >= getter_get_min_trade_id(getter)))

C20_Witness ==
    /\ getter_op = "load_more_data"
    /\ getter_result.kind = "IntersectingTradeSlicesError"
    /\ file.json
    /\ Len(getter.data) > Len(file.items)
    /\ getter.min_trade_id < getter_new(file).db.min_trade_id
    /\ getter.min_trade_id = getter.data[1].trade_id

Reverse(s) == [i \in 1..Len(s) |-> s[Len(s) - i + 1]]

(* No two different records under one trade_id. *)
NoRestatement(d) ==
    \A i, j \in 1..Len(d) : d[i].trade_id = d[j].trade_id => d[i] = d[j]

SaveOnlyAfterSuccess ==
    /\ getter_result = Ok
    /\ getter_op' = "new" => getter_op = "none"
    /\ getter_op' = "load_more_data" => getter_op = "new"
    /\ getter_op' = "save" => getter_op = "load_more_data"
    /\ getter_op' # "save" => file' = file

(* After a save that returned Ok the file holds every record that was    *)
(* loaded from it.                                                       *)
SavedSupersetOfLoaded ==
    (getter_op' = "save" /\ getter_result' = Ok) =>
        /\ file'.json
        /\ Range(from_reader(file.items)) \subseteq Range(from_reader(file'.items))

(* C21: in main of hist_getter save is reached only if Db::new and       *)
(* load_more_data both returned Ok; when either fails the file is not    *)
(* written and keeps its content; and in a run that saves, the records   *)
(* saved include every record that was loaded.                           *)
C21_PersistOnlyAfterSuccess ==
    [][SaveOnlyAfterSuccess /\ SavedSupersetOfLoaded]_vars

(* C21, the part that holds: the order of the calls and the untouched    *)
(* file of a run that fails before save.                                 *)
C21_SaveOnlyAfterSuccess == [][SaveOnlyAfterSuccess]_vars

(* C21, the part that holds: a save whose whole text reached the file    *)
(* wrote every record that was loaded.                                   *)
C21_CompleteSaveKeepsLoaded ==
    [][(getter_op' = "save" /\ file' = JsonArray(getter.data))
        => Range(from_reader(file.items)) \subseteq Range(from_reader(file'.items))]_vars

(* The calls that answered SellQuote. *)
Sells == {i \in 1..Len(calls) : calls[i].action.kind = "SellQuote"}

(* C22: of the react_to_data calls on one RandomStrategy the first       *)
(* answers BuyQuote of the base balance it was given; the later ones     *)
(* answer Pass until at most one answers SellQuote of the quote balance  *)
(* it was given; every call after that one answers BuyQuote of 0.        *)
C22_ActionProtocol ==
    /\ Len(calls) >= 1 =>
        calls[1].action = BuyQuote(calls[1].new_balance.base_balance)
    /\ Cardinality(Sells) <= 1
    /\ \A i \in 2..Len(calls) :
        IF \E j \in Sells : j < i THEN calls[i].action = BuyQuote(0)
        ELSE IF i \in Sells
            THEN calls[i].action = SellQuote(calls[i].new_balance.quote_balance)
        ELSE calls[i].action = Pass

C22_Witness ==
    /\ Len(calls) >= 4
    /\ calls[1].action = BuyQuote(1000)
    /\ calls[2].action = Pass
    /\ calls[3].action = SellQuote(69930)
    /\ calls[4].action = BuyQuote(0)
    /\ calls[4].new_balance.base_balance > 0

(* In the simulation the strategy sold what it had bought. *)
C22_ExecutorWitness ==
    /\ sim.state = "loop"
    /\ Len(calls) >= 3
    /\ calls[2].action.kind = "SellQuote"
    /\ calls[2].action.quantity > 0
    /\ calls[3].action = BuyQuote(0)

====
